---- MODULE Spec2Model ----
(***************************************************************************)
(* Model of SweetDisplayEncoder (mvisor/sweet/display_encoder.cc): the     *)
(* producer-facing operations Start, Stop, Render, ForceKeyframe and the   *)
(* destructor, and the encoder thread EncodeProcess, interleaved at the    *)
(* granularity at which the code takes and drops encode_mutex_.  Members   *)
(* that the code reads or writes without the mutex (force_keyframe_,       *)
(* destroyed_) are read and written in separate steps, so every order the  *)
(* two threads can produce is explored.                                    *)
(***************************************************************************)
EXTENDS Integers, Naturals, Sequences, FiniteSets, TLC

VARIABLES
  screen_width_, screen_height_,   \* screen descriptor, fixed at construction
  screen_bpp_, screen_stride_,     \* bits per pixel and bytes per row of the screen
  screen_bitmap_,                  \* the screen buffer: byte index -> byte, for the followed bytes
  started_, force_keyframe_, destroyed_, output_callback_,
  encode_slices_,                  \* queue of EncodeSlice records
  copied,                          \* EncodeProcess' local copy of the queue
  next_id,                         \* number of EncodeSlice objects allocated
  i_pts, i_type,                   \* input_yuv_.i_pts / input_yuv_.i_type
  output_nal_size_, output_nal_,   \* last codec result: size, and the pts of the picture it encodes
  lock_owner,                      \* holder of encode_mutex_
  cv_notified,                     \* encode_cv_: a notify_all reached the waiting thread
  pc_w,                            \* position of the encoder thread
  pc_p,                            \* position of the producer thread
  released,                        \* codec, picture and bitmap have been freed
  \* history variables (observations only, never read by the actions)
  drawn,                           \* ids of the slices stitched, in order
  kf_owed,                         \* a keyframe was requested and none was submitted since
  flag_origin,                     \* id of the Start slice whose Start set force_keyframe_ (0: none)
  type_origin,                     \* during Encode: flag_origin as it was when the thread tested the flag
  start_id,                        \* id of the slice of the latest Start (0: never started)
  start_wait,                      \* the latest Start has not seen an output yet
  start_kf,                        \* while start_wait: keyframes submitted since that Start (0, 1, 2 for more)
  start_forced,                    \* while start_wait: ForceKeyframe was called since that Start
  nal_start,                       \* start_id when the picture held in output_nal_ was submitted
  n_out, n_neg,                    \* ticks whose encode returned size >= 0 / size < 0
  last_cb                          \* the last invocation of the output callback

vars == << screen_width_, screen_height_, screen_bpp_, screen_stride_,
           screen_bitmap_, started_, force_keyframe_, destroyed_,
           output_callback_, encode_slices_, copied, next_id, i_pts, i_type,
           output_nal_size_, output_nal_, lock_owner, cv_notified, pc_w, pc_p,
           released, drawn, kf_owed, flag_origin, type_origin, start_id,
           start_kf, start_wait, start_forced, nal_start, n_out, n_neg,
           last_cb >>

\* What the constructor fixes, and the buffer only Render writes.
screen == << screen_width_, screen_height_, screen_bpp_, screen_stride_, screen_bitmap_ >>

hist == << drawn, kf_owed, flag_origin, type_origin, start_id, start_kf,
           start_wait, start_forced, nal_start, n_out, n_neg, last_cb >>

(***************************************************************************)
(* Bounds of the exploration.                                              *)
(***************************************************************************)
MaxSlices == 2      \* EncodeSlice objects allocated in one behaviour
MaxTicks == 3       \* calls of Encode in one behaviour
MaxPartials == 2    \* partials in one Render call

(***************************************************************************)
(* Program constants.                                                      *)
(***************************************************************************)
width_alignment == 16
height_alignment == 2
X264_TYPE_AUTO == 0
X264_TYPE_KEYFRAME == 6
NoCallback == 0

(***************************************************************************)
(* Inputs.                                                                 *)
(***************************************************************************)
\* Screens accepted by the constructor, as << width, height, bpp, stride >>:
\* even width and height.
Screens == { <<32, 4, 32, 128>>, <<24, 4, 24, 72>> }
\* Callbacks handed to Start.
Callbacks == {1, 2}
\* Values x264_encoder_encode can return: an error, an empty frame, a frame.
CodecSizes == {-1, 0, 1}
\* A byte whose value the model does not follow: the contents of memory that
\* was allocated and never written, and the pixels of the partials used where
\* no property reads them.
AnyByte == -1
\* A buffer is the function from the indices of its followed bytes to
\* those bytes; every other byte of it is AnyByte.
ByteAt(buffer, i) == IF i \in DOMAIN buffer THEN buffer[i] ELSE AnyByte
\* The tile of a slice that ConvertSlices has not filled: x264_picture_alloc
\* gave it memory that was never written.
Unconverted == [converted |-> FALSE, colour |-> << >>]
\* Dirty rectangles of the producer, all inside the screen.
PartialRects(w, h) ==
  { r \in [x : {0, 5, 17}, y : {1, 3}, width : {3, 10, 16}, height : {1, 3}] :
      r.x + r.width <= w /\ r.y + r.height <= h }
\* The two dirty rectangles used where the pixels' place does not matter.
SomeRects == { [x |-> 5, y |-> 1, width |-> 10, height |-> 1],
               [x |-> 17, y |-> 1, width |-> 7, height |-> 3] }

RECURSIVE SeqsUpTo(_, _)
SeqsUpTo(S, n) ==
  IF n = 0 THEN { << >> }
  ELSE LET shorter == SeqsUpTo(S, n - 1)
       IN shorter \cup { Append(s, e) : s \in { t \in shorter : Len(t) = n - 1 }, e \in S }

(***************************************************************************)
(* DisplayPartialBitmap: the rectangle, the flip flag, the stride of the   *)
(* source rows and the iovec list; an iovec is its length iov_len and the  *)
(* buffer at iov_base.  A followed source byte is named by its place, row  *)
(* v and byte k of the row, so that all the bytes of a source differ.      *)
(***************************************************************************)
SourceByte(v, k, followed) == IF followed THEN 100 * (v + 1) + k ELSE AnyByte

\* The iovec holding `rows` source rows starting with row `first`.
Segment(first, rows, stride, followed) ==
  [iov_len |-> rows * stride,
   iov_base |-> IF followed
                  THEN [j \in 0..(rows * stride - 1) |->
                          SourceByte(first + (j \div stride), j % stride, TRUE)]
                  ELSE << >>]

\* The iovec list that delivers the source rows in segments of counts[1],
\* counts[2], ... rows.
RECURSIVE Vector(_, _, _, _)
Vector(counts, first, stride, followed) ==
  IF counts = << >> THEN << >>
  ELSE << Segment(first, Head(counts), stride, followed) >>
         \o Vector(Tail(counts), first + Head(counts), stride, followed)

Partial(r, flip, stride, counts, followed) ==
  [x |-> r.x, y |-> r.y, width |-> r.width, height |-> r.height,
   flip |-> flip, stride |-> stride,
   vector |-> Vector(counts, 0, stride, followed)]

\* screen_bpp_ >> 3
BytesPerPixel(bpp) == bpp \div 8

\* The rectangle r sent as one iovec of tightly packed rows, not flipped,
\* with pixels the model does not follow.
Painted(r, bpp) ==
  Partial(r, FALSE, r.width * BytesPerPixel(bpp), << r.height >>, FALSE)

PaintedAll(rs, bpp) == [k \in 1..Len(rs) |-> Painted(rs[k], bpp)]

(***************************************************************************)
(* RenderPartial.  Pointers into screen_bitmap_ are byte indices; st is    *)
(* the state of the two loops: the buffer, dst, lines, and whether         *)
(* MV_ASSERT has failed.  env holds what the loops do not change.          *)
(***************************************************************************)
\* memcpy(dst, src, n) with src at offset off of the iovec.
Memcpy(bitmap, dst, src, off, n) ==
  LET written == dst..(dst + n - 1)
      followed == { dst + (j - off) : j \in { j \in DOMAIN src : j >= off /\ j < off + n } }
      kept == DOMAIN bitmap \ written
  IN [i \in kept \cup followed |->
        IF i \in written THEN src[off + (i - dst)] ELSE bitmap[i]]

\* The copy without the reversal of the destination stride.
RenderPartialNoFlipStart(partial, bpp, stride) ==
  stride * partial.y + partial.x * BytesPerPixel(bpp)

\* dst before the loops.
RenderPartialStart(partial, bpp, stride) ==
  IF partial.flip
    THEN stride * (partial.y + partial.height - 1) + partial.x * BytesPerPixel(bpp)
    ELSE stride * partial.y + partial.x * BytesPerPixel(bpp)

\* while (copy_lines > 0 && lines > 0) { MV_ASSERT; memcpy; ... }
RECURSIVE CopyLines(_, _, _, _, _)
CopyLines(st, env, src, off, copy_lines) ==
  IF st.aborted \/ ~(copy_lines > 0 /\ st.lines > 0) THEN st
  ELSE IF ~(st.dst + env.linesize <= env.dst_end)
         THEN [st EXCEPT !.aborted = TRUE]
         ELSE CopyLines([bitmap |-> Memcpy(st.bitmap, st.dst, src, off, env.linesize),
                         dst |-> st.dst + env.dst_stride,
                         lines |-> st.lines - 1,
                         aborted |-> FALSE],
                        env, src, off + env.stride, copy_lines - 1)

\* while (lines > 0 && src_index < partial->vector.size()) { ...; ++src_index; }
RECURSIVE CopyVector(_, _, _, _)
CopyVector(st, env, vector, src_index) ==
  IF st.aborted \/ ~(st.lines > 0 /\ src_index < Len(vector)) THEN st
  ELSE CopyVector(CopyLines(st, env, vector[src_index + 1].iov_base, 0,
                            vector[src_index + 1].iov_len \div env.stride),
                  env, vector, src_index + 1)

\* The state of the loops when RenderPartial(partial) ends: the buffer it
\* leaves, and whether MV_ASSERT failed.
RenderPartial(bitmap, partial, sh, bpp, stride) ==
  LET env == [linesize |-> partial.width * BytesPerPixel(bpp),
              dst_stride |-> IF partial.flip THEN 0 - stride ELSE stride,
              dst_end |-> stride * sh,
              stride |-> partial.stride]
      st == [bitmap |-> bitmap,
             dst |-> RenderPartialStart(partial, bpp, stride),
             lines |-> partial.height,
             aborted |-> FALSE]
  IN CopyVector(st, env, partial.vector, 0)

\* The loop of Render over the partials ps, as far as the screen buffer
\* goes: blit is the buffer so far, and whether MV_ASSERT has failed.
RECURSIVE RenderPartials(_, _, _, _, _)
RenderPartials(blit, ps, sh, bpp, stride) ==
  IF blit.aborted \/ ps = << >> THEN blit
  ELSE RenderPartials(RenderPartial(blit.bitmap, Head(ps), sh, bpp, stride),
                      Tail(ps), sh, bpp, stride)

(***************************************************************************)
(* CreateEncodeSlice: the rectangle of the slice that is pushed.  The code  *)
(* computes in uint; for the rectangles explored here (left <= right, all  *)
(* coordinates at most the screen size plus 15) no intermediate value      *)
(* leaves the range of uint, so the arithmetic is that of the integers.    *)
(***************************************************************************)
AlignDown(v, a) == IF v % a # 0 THEN v - (v % a) ELSE v
AlignUp(v, a) == IF v % a # 0 THEN v + a - (v % a) ELSE v

\* The rectangle without the clamp to the screen.
SliceRectNoClamp(top, left, bottom, right, sw, sh) ==
  LET l == AlignDown(left, width_alignment)
      r == AlignUp(right, width_alignment)
      t == AlignDown(top, height_alignment)
      b == AlignUp(bottom, height_alignment)
  IN [x |-> l, y |-> t, width |-> r - l, height |-> b - t]

\* The rectangle with right and bottom rounded down like left and top.
SliceRectRoundedDown(top, left, bottom, right, sw, sh) ==
  LET l == AlignDown(left, width_alignment)
      r0 == AlignDown(right, width_alignment)
      t == AlignDown(top, height_alignment)
      b0 == AlignDown(bottom, height_alignment)
      r == IF r0 > sw THEN sw ELSE r0
      b == IF b0 > sh THEN sh ELSE b0
  IN [x |-> l, y |-> t, width |-> r - l, height |-> b - t]

SliceRect(top, left, bottom, right, sw, sh) ==
  LET l == AlignDown(left, width_alignment)
      r0 == AlignUp(right, width_alignment)
      t == AlignDown(top, height_alignment)
      b0 == AlignUp(bottom, height_alignment)
      r == IF r0 > sw THEN sw ELSE r0
      b == IF b0 > sh THEN sh ELSE b0
  IN [x |-> l, y |-> t, width |-> r - l, height |-> b - t]

\* The queue after CreateEncodeSlice(top, left, bottom, right); the k-th
\* object allocated gets id k.
CreateEncodeSlice(queue, id, top, left, bottom, right, sw, sh) ==
  LET rect == SliceRect(top, left, bottom, right, sw, sh)
  IN Append(queue, [id |-> id, x |-> rect.x, y |-> rect.y,
                    width |-> rect.width, height |-> rect.height,
                    tile |-> Unconverted])

\* The queue after the loop of Render over the partials ps, when started_.
RECURSIVE RenderSlices(_, _, _, _, _)
RenderSlices(queue, id, ps, sw, sh) ==
  IF ps = << >> THEN queue
  ELSE LET p == Head(ps)
       IN RenderSlices(
            CreateEncodeSlice(queue, id, p.y, p.x, p.y + p.height, p.x + p.width, sw, sh),
            id + 1, Tail(ps), sw, sh)

(***************************************************************************)
(* ConvertSlices.  libyuv reads, for each row of the slice, the bytes of   *)
(* its pixels from the screen buffer and computes the I420 planes of the   *)
(* tile from the colour bytes; the tile is modelled by the colour bytes    *)
(* it was computed from.  ARGBToI420 reads four bytes a pixel and does not *)
(* use the fourth (alpha); RGB24ToI420 reads three.                        *)
(***************************************************************************)
\* Colour byte c of pixel u of row j of a tile is byte (j * width + u) * 3 + c
\* of its colour bytes; the pixel is n bytes long in the screen buffer.
ColourBytes(bitmap, src, stride, width, height, n) ==
  LET \* the byte of the screen buffer that colour byte k is read from
      from(k) == src + stride * (k \div (3 * width))
                     + n * ((k % (3 * width)) \div 3) + (k % 3)
      \* the followed bytes of the buffer among those read
      read == { i \in DOMAIN bitmap :
                  /\ i >= src /\ (i - src) \div stride < height
                  /\ (i - src) % stride < n * width
                  /\ ((i - src) % stride) % n < 3 }
      to(i) == 3 * width * ((i - src) \div stride)
                 + 3 * (((i - src) % stride) \div n) + (((i - src) % stride) % n)
  IN [converted |-> TRUE, colour |-> [k \in { to(i) : i \in read } |-> bitmap[from(k)]]]

ARGBToI420(bitmap, src, stride, width, height) ==
  ColourBytes(bitmap, src, stride, width, height, 4)

RGB24ToI420(bitmap, src, stride, width, height) ==
  ColourBytes(bitmap, src, stride, width, height, 3)

\* The body of the loop of ConvertSlices for one slice.
ConvertSlice(slice, bitmap, bpp, stride) ==
  LET src == stride * slice.y + slice.x * BytesPerPixel(bpp)
  IN IF bpp = 32
       THEN [slice EXCEPT !.tile = ARGBToI420(bitmap, src, stride, slice.width, slice.height)]
       ELSE IF bpp = 24
              THEN [slice EXCEPT !.tile = RGB24ToI420(bitmap, src, stride, slice.width, slice.height)]
              ELSE slice

\* The queue after ConvertSlices().
ConvertSlices(queue, bitmap, bpp, stride) ==
  [k \in 1..Len(queue) |-> ConvertSlice(queue[k], bitmap, bpp, stride)]

\* encode_cv_.notify_all(): only a thread that is waiting receives it.
NotifyAll == IF pc_w = "wait" THEN TRUE ELSE cv_notified

NoCb == [cb |-> NoCallback, pts |-> 0]

(***************************************************************************)
(* Initial state: the object after its constructor, thread spawned.        *)
(***************************************************************************)
InitOn(screens) ==
  /\ \E s \in screens :
       /\ screen_width_ = s[1] /\ screen_height_ = s[2]
       /\ screen_bpp_ = s[3] /\ screen_stride_ = s[4]
       \* new uint8_t[screen_stride_ * screen_height_]: never written yet
       /\ screen_bitmap_ = << >>
  /\ started_ = FALSE /\ force_keyframe_ = FALSE /\ destroyed_ = FALSE
  /\ output_callback_ = NoCallback
  /\ encode_slices_ = << >> /\ copied = << >> /\ next_id = 0
  /\ i_pts = 0 /\ i_type = X264_TYPE_AUTO
  /\ output_nal_size_ = 0 /\ output_nal_ = 0
  /\ lock_owner = "none" /\ cv_notified = FALSE
  /\ pc_w = "loop" /\ pc_p = "run" /\ released = FALSE
  /\ drawn = << >> /\ kf_owed = FALSE /\ flag_origin = 0 /\ type_origin = 0
  /\ start_id = 0 /\ start_kf = 0 /\ start_wait = FALSE /\ start_forced = FALSE
  /\ nal_start = 0 /\ n_out = 0 /\ n_neg = 0 /\ last_cb = NoCb

Init == InitOn(Screens)

(***************************************************************************)
(* Producer thread.  Start, Stop and Render hold encode_mutex_ from their  *)
(* first statement to their last, so each is one step taken while the      *)
(* mutex is free.  ForceKeyframe and the destructor take no mutex: each of *)
(* their statements is a step.                                             *)
(***************************************************************************)
Start(cb) ==
  /\ pc_p = "run" /\ lock_owner = "none"
  /\ next_id < MaxSlices /\ i_pts < MaxTicks
  /\ started_' = TRUE
  /\ force_keyframe_' = TRUE
  /\ output_callback_' = cb
  /\ encode_slices_' = CreateEncodeSlice(encode_slices_, next_id + 1,
                          0, 0, screen_height_, screen_width_,
                          screen_width_, screen_height_)
  /\ next_id' = next_id + 1
  /\ kf_owed' = TRUE /\ flag_origin' = next_id + 1 /\ start_id' = next_id + 1
  /\ start_kf' = 0 /\ start_wait' = TRUE /\ start_forced' = FALSE
  /\ UNCHANGED << screen, destroyed_, copied, i_pts, i_type,
                  output_nal_size_, output_nal_, lock_owner, cv_notified, pc_w, pc_p,
                  released, drawn, type_origin, nal_start, n_out, n_neg, last_cb >>

\* Stop without the reset of the callback slot.
StopKeepCallback ==
  /\ pc_p = "run" /\ lock_owner = "none"
  /\ started_' = FALSE
  /\ UNCHANGED << screen, force_keyframe_, destroyed_,
                  output_callback_, encode_slices_, copied, next_id, i_pts, i_type,
                  output_nal_size_, output_nal_, lock_owner, cv_notified, pc_w, pc_p,
                  released, hist >>

Stop ==
  /\ pc_p = "run" /\ lock_owner = "none"
  /\ started_' = FALSE
  /\ output_callback_' = NoCallback
  /\ UNCHANGED << screen, force_keyframe_, destroyed_,
                  encode_slices_, copied, next_id, i_pts, i_type, output_nal_size_,
                  output_nal_, lock_owner, cv_notified, pc_w, pc_p, released, hist >>

\* A Render that queues a slice for the whole screen, whatever it is given.
RenderWholeScreen(partials) ==
  /\ pc_p = "run" /\ lock_owner = "none"
  /\ started_ /\ next_id < MaxSlices
  /\ encode_slices_' = CreateEncodeSlice(encode_slices_, next_id + 1,
                          0, 0, screen_height_, screen_width_,
                          screen_width_, screen_height_)
  /\ next_id' = next_id + 1
  /\ cv_notified' = NotifyAll
  /\ UNCHANGED << screen, started_, force_keyframe_, destroyed_, output_callback_,
                  copied, i_pts, i_type, output_nal_size_, output_nal_, lock_owner,
                  pc_w, pc_p, released, hist >>

\* Render, under encode_mutex_ from its first statement to its last.  A
\* failed MV_ASSERT in RenderPartial aborts the process: both threads end
\* where they are and nothing runs afterwards.
Render(partials) ==
  /\ pc_p = "run" /\ lock_owner = "none"
  /\ started_ => next_id + Len(partials) <= MaxSlices
  /\ \E blit \in { RenderPartials([bitmap |-> screen_bitmap_, aborted |-> FALSE],
                                   partials, screen_height_, screen_bpp_,
                                   screen_stride_) } :
        IF blit.aborted
          THEN /\ pc_p' = "aborted" /\ pc_w' = "aborted"
               /\ UNCHANGED << screen_bitmap_, encode_slices_, next_id, cv_notified >>
          ELSE /\ screen_bitmap_' = blit.bitmap
               /\ IF started_
                    THEN /\ encode_slices_' =
                              RenderSlices(encode_slices_, next_id + 1, partials,
                                           screen_width_, screen_height_)
                         /\ next_id' = next_id + Len(partials)
                    ELSE UNCHANGED << encode_slices_, next_id >>
               /\ cv_notified' = IF encode_slices_' # << >> THEN NotifyAll ELSE cv_notified
               /\ UNCHANGED << pc_p, pc_w >>
  /\ UNCHANGED << screen_width_, screen_height_, screen_bpp_, screen_stride_,
                  started_, force_keyframe_, destroyed_, output_callback_, copied,
                  i_pts, i_type, output_nal_size_, output_nal_, lock_owner,
                  released, hist >>

ForceKeyframeSet ==
  /\ pc_p = "run" /\ i_pts < MaxTicks
  /\ force_keyframe_' = TRUE
  /\ pc_p' = "fk_notify"
  /\ kf_owed' = TRUE
  /\ flag_origin' = IF force_keyframe_ THEN flag_origin ELSE 0
  /\ start_forced' = IF start_wait THEN TRUE ELSE start_forced
  /\ UNCHANGED << screen, started_, destroyed_, output_callback_,
                  encode_slices_, copied, next_id, i_pts, i_type, output_nal_size_,
                  output_nal_, lock_owner, cv_notified, pc_w, released, drawn,
                  type_origin, start_id, start_kf, start_wait, nal_start, n_out,
                  n_neg, last_cb >>

ForceKeyframeNotify ==
  /\ pc_p = "fk_notify"
  /\ cv_notified' = NotifyAll
  /\ pc_p' = "run"
  /\ UNCHANGED << screen, started_, force_keyframe_, destroyed_,
                  output_callback_, encode_slices_, copied, next_id, i_pts, i_type,
                  output_nal_size_, output_nal_, lock_owner, pc_w, released, hist >>

DestroySet ==
  /\ pc_p = "run"
  /\ destroyed_' = TRUE
  /\ pc_p' = "dtor_notify"
  /\ UNCHANGED << screen, started_, force_keyframe_,
                  output_callback_, encode_slices_, copied, next_id, i_pts, i_type,
                  output_nal_size_, output_nal_, lock_owner, cv_notified, pc_w,
                  released, hist >>

DestroyNotify ==
  /\ pc_p = "dtor_notify"
  /\ cv_notified' = NotifyAll
  /\ pc_p' = "dtor_join"
  /\ UNCHANGED << screen, started_, force_keyframe_, destroyed_,
                  output_callback_, encode_slices_, copied, next_id, i_pts, i_type,
                  output_nal_size_, output_nal_, lock_owner, pc_w, released, hist >>

\* encode_thread_.join() returns once EncodeProcess has returned.
JoinReturns == pc_w = "done"

DestroyJoin ==
  /\ pc_p = "dtor_join"
  /\ JoinReturns
  /\ pc_p' = "dtor_release"
  /\ UNCHANGED << screen, started_, force_keyframe_, destroyed_,
                  output_callback_, encode_slices_, copied, next_id, i_pts, i_type,
                  output_nal_size_, output_nal_, lock_owner, cv_notified, pc_w,
                  released, hist >>

DestroyRelease ==
  /\ pc_p = "dtor_release"
  /\ released' = TRUE
  /\ pc_p' = "gone"
  /\ UNCHANGED << screen, started_, force_keyframe_, destroyed_,
                  output_callback_, encode_slices_, copied, next_id, i_pts, i_type,
                  output_nal_size_, output_nal_, lock_owner, cv_notified, pc_w, hist >>

(***************************************************************************)
(* Encoder thread: EncodeProcess, one step per stretch of code in which    *)
(* the thread either holds encode_mutex_ throughout or touches one member  *)
(* shared without it.                                                      *)
(***************************************************************************)
\* idle_interval (500 ms) of wait_for: it can always have passed.
IdleIntervalElapsed == TRUE

\* A wait that returns on a notification only.
WaitForReturnsNoTimeout == cv_notified

\* encode_cv_.wait_for(lock, idle_interval) returns on a notification or
\* when the 500 ms have passed, which can always happen.
WaitForReturns == cv_notified \/ IdleIntervalElapsed

\* while (!destroyed_)
WorkerLoop ==
  /\ pc_w = "loop"
  /\ pc_w' = IF destroyed_ THEN "done" ELSE "lock"
  /\ UNCHANGED << screen, started_, force_keyframe_, destroyed_,
                  output_callback_, encode_slices_, copied, next_id, i_pts, i_type,
                  output_nal_size_, output_nal_, lock_owner, cv_notified, pc_p,
                  released, hist >>

\* unique_lock lock(encode_mutex_); encode_cv_.wait_for(...) drops the mutex
\* and blocks.
WorkerWait ==
  /\ pc_w = "lock"
  /\ lock_owner = "none"
  /\ pc_w' = "wait"
  /\ UNCHANGED << screen, started_, force_keyframe_, destroyed_,
                  output_callback_, encode_slices_, copied, next_id, i_pts, i_type,
                  output_nal_size_, output_nal_, lock_owner, cv_notified, pc_p,
                  released, hist >>

\* EncodeProcess going back to wait when nothing is queued, without Encode.
WorkerWakeSkipIdle ==
  /\ pc_w = "wait"
  /\ WaitForReturns
  /\ lock_owner = "none"
  /\ destroyed_ \/ ~started_ \/ i_pts < MaxTicks
  /\ cv_notified' = FALSE
  /\ IF destroyed_
       THEN pc_w' = "done" /\ UNCHANGED lock_owner
       ELSE IF ~started_ \/ encode_slices_ = << >>
              THEN pc_w' = "loop" /\ UNCHANGED lock_owner
              ELSE pc_w' = "convert" /\ lock_owner' = "worker"
  /\ UNCHANGED << screen, started_, force_keyframe_, destroyed_,
                  output_callback_, encode_slices_, copied, next_id, i_pts, i_type,
                  output_nal_size_, output_nal_, pc_p, released, hist >>

\* wait_for returns with the mutex held; destroyed_ and started_ are tested;
\* with an empty queue the mutex is dropped at once.
WorkerWake ==
  /\ pc_w = "wait"
  /\ WaitForReturns
  /\ lock_owner = "none"
  /\ destroyed_ \/ ~started_ \/ i_pts < MaxTicks
  /\ cv_notified' = FALSE
  /\ IF destroyed_
       THEN pc_w' = "done" /\ UNCHANGED lock_owner
       ELSE IF ~started_
              THEN pc_w' = "loop" /\ UNCHANGED lock_owner
              ELSE IF encode_slices_ = << >>
                     THEN pc_w' = "encode" /\ UNCHANGED lock_owner
                     ELSE pc_w' = "convert" /\ lock_owner' = "worker"
  /\ UNCHANGED << screen, started_, force_keyframe_, destroyed_,
                  output_callback_, encode_slices_, copied, next_id, i_pts, i_type,
                  output_nal_size_, output_nal_, pc_p, released, hist >>

\* ConvertSlices() followed by a release of the mutex.
WorkerConvertUnlocked ==
  /\ pc_w = "convert"
  /\ encode_slices_' = ConvertSlices(encode_slices_, screen_bitmap_,
                                     screen_bpp_, screen_stride_)
  /\ lock_owner' = "none"
  /\ pc_w' = "take"
  /\ UNCHANGED << screen, started_, force_keyframe_, destroyed_,
                  output_callback_, copied, next_id, i_pts, i_type,
                  output_nal_size_, output_nal_, cv_notified, pc_p,
                  released, hist >>

\* ConvertSlices(), with the mutex held: fills each queued slice's own tile.
WorkerConvert ==
  /\ pc_w = "convert"
  /\ encode_slices_' = ConvertSlices(encode_slices_, screen_bitmap_,
                                     screen_bpp_, screen_stride_)
  /\ pc_w' = "take"
  /\ UNCHANGED << screen, started_, force_keyframe_, destroyed_,
                  output_callback_, copied, next_id, i_pts, i_type,
                  output_nal_size_, output_nal_, lock_owner, cv_notified, pc_p,
                  released, hist >>

\* auto copied(encode_slices_); encode_slices_.clear(); lock.unlock();
WorkerTake ==
  /\ pc_w = "take"
  /\ copied' = encode_slices_
  /\ encode_slices_' = << >>
  /\ lock_owner' = "none"
  /\ pc_w' = "draw"
  /\ UNCHANGED << screen, started_, force_keyframe_, destroyed_,
                  output_callback_, next_id, i_pts, i_type, output_nal_size_,
                  output_nal_, cv_notified, pc_p, released, hist >>

\* The slices stitched last to first.
DrawOrderReversed(slices) == [k \in 1..Len(slices) |-> slices[Len(slices) + 1 - k].id]

\* The ids of the slices DrawSlices stitches and deletes, in its loop order.
DrawOrder(slices) == [k \in 1..Len(slices) |-> slices[k].id]

WorkerDraw ==
  /\ pc_w = "draw"
  /\ drawn' = drawn \o DrawOrder(copied)
  /\ copied' = << >>
  /\ pc_w' = "encode"
  /\ UNCHANGED << screen, started_, force_keyframe_, destroyed_,
                  output_callback_, encode_slices_, next_id, i_pts, i_type,
                  output_nal_size_, output_nal_, lock_owner, cv_notified, pc_p,
                  released, kf_owed, flag_origin, type_origin, start_id, start_kf,
                  start_wait, start_forced, nal_start, n_out, n_neg, last_cb >>

\* Encode with the timestamp advanced on automatic frames only.
WorkerEncodeTypeKeepPts ==
  /\ pc_w = "encode"
  /\ IF force_keyframe_
       THEN /\ i_type' = X264_TYPE_KEYFRAME
            /\ i_pts' = i_pts
            /\ type_origin' = flag_origin
            /\ pc_w' = "enc_clear"
       ELSE /\ i_type' = X264_TYPE_AUTO
            /\ i_pts' = i_pts + 1
            /\ type_origin' = 0
            /\ pc_w' = "enc_submit"
  /\ UNCHANGED << screen, started_, force_keyframe_, destroyed_,
                  output_callback_, encode_slices_, copied, next_id, output_nal_size_,
                  output_nal_, lock_owner, cv_notified, pc_p, released, drawn, kf_owed,
                  flag_origin, start_id, start_kf, start_wait, start_forced, nal_start,
                  n_out, n_neg, last_cb >>

\* Encode(), no mutex held: ++i_pts; if (force_keyframe_) i_type = KEYFRAME
\* else i_type = AUTO.
WorkerEncodeType ==
  /\ pc_w = "encode"
  /\ i_pts' = i_pts + 1
  /\ IF force_keyframe_
       THEN /\ i_type' = X264_TYPE_KEYFRAME
            /\ type_origin' = flag_origin
            /\ pc_w' = "enc_clear"
       ELSE /\ i_type' = X264_TYPE_AUTO
            /\ type_origin' = 0
            /\ pc_w' = "enc_submit"
  /\ UNCHANGED << screen, started_, force_keyframe_, destroyed_,
                  output_callback_, encode_slices_, copied, next_id, output_nal_size_,
                  output_nal_, lock_owner, cv_notified, pc_p, released, drawn, kf_owed,
                  flag_origin, start_id, start_kf, start_wait, start_forced, nal_start,
                  n_out, n_neg, last_cb >>

\* force_keyframe_ = false;
WorkerEncodeClear ==
  /\ pc_w = "enc_clear"
  /\ force_keyframe_' = FALSE
  /\ flag_origin' = 0
  /\ pc_w' = "enc_submit"
  /\ UNCHANGED << screen, started_, destroyed_, output_callback_,
                  encode_slices_, copied, next_id, i_pts, i_type, output_nal_size_,
                  output_nal_, lock_owner, cv_notified, pc_p, released, drawn, kf_owed,
                  type_origin, start_id, start_kf, start_wait, start_forced, nal_start,
                  n_out, n_neg, last_cb >>

\* output_nal_size_ = x264_encoder_encode(...); the codec returns any size.
WorkerEncodeSubmit ==
  /\ pc_w = "enc_submit"
  /\ \E size \in CodecSizes :
       /\ output_nal_size_' = size
       /\ output_nal_' = IF size >= 0 THEN i_pts ELSE output_nal_
       /\ nal_start' = IF size >= 0 THEN start_id ELSE nal_start
       /\ n_out' = IF size >= 0 THEN n_out + 1 ELSE n_out
       /\ n_neg' = IF size >= 0 THEN n_neg ELSE n_neg + 1
       /\ start_wait' = IF size >= 0 THEN FALSE ELSE start_wait
       /\ start_forced' = IF size >= 0 THEN FALSE ELSE start_forced
       /\ start_kf' = IF size >= 0 \/ ~start_wait THEN 0
                      ELSE IF i_type = X264_TYPE_KEYFRAME /\ start_kf < 2
                             THEN start_kf + 1 ELSE start_kf
  /\ kf_owed' = IF i_type = X264_TYPE_KEYFRAME THEN FALSE ELSE kf_owed
  /\ type_origin' = 0
  /\ pc_w' = "relock"
  /\ UNCHANGED << screen, started_, force_keyframe_, destroyed_,
                  output_callback_, encode_slices_, copied, next_id, i_pts, i_type,
                  lock_owner, cv_notified, pc_p, released, drawn, flag_origin,
                  start_id, last_cb >>

\* lock.lock();
WorkerRelock ==
  /\ pc_w = "relock"
  /\ lock_owner = "none"
  /\ lock_owner' = "worker"
  /\ pc_w' = "callback"
  /\ UNCHANGED << screen, started_, force_keyframe_, destroyed_,
                  output_callback_, encode_slices_, copied, next_id, i_pts, i_type,
                  output_nal_size_, output_nal_, cv_notified, pc_p, released, hist >>

\* The record of one invocation: the callback called, and on which tick.
Invocation(cb) == [cb |-> cb, pts |-> i_pts]

\* if (output_callback_) output_callback_(output_nal_->p_payload, output_nal_size_);
\* then the end of the loop body drops the mutex.
WorkerCallback ==
  /\ pc_w = "callback"
  /\ last_cb' = IF output_callback_ # NoCallback
                  THEN Invocation(output_callback_) ELSE last_cb
  /\ lock_owner' = "none"
  /\ pc_w' = "loop"
  /\ UNCHANGED << screen, started_, force_keyframe_, destroyed_,
                  output_callback_, encode_slices_, copied, next_id, i_pts, i_type,
                  output_nal_size_, output_nal_, cv_notified, pc_p, released, drawn,
                  kf_owed, flag_origin, type_origin, start_id, start_kf, start_wait,
                  start_forced, nal_start, n_out, n_neg >>

Producer ==
  \/ \E cb \in Callbacks : Start(cb)
  \/ Stop
  \/ \E ps \in SeqsUpTo(SomeRects, MaxPartials) : Render(PaintedAll(ps, screen_bpp_))
  \/ ForceKeyframeSet
  \/ ForceKeyframeNotify
  \/ DestroySet
  \/ DestroyNotify
  \/ DestroyJoin
  \/ DestroyRelease

Worker ==
  \/ WorkerLoop
  \/ WorkerWait
  \/ WorkerWake
  \/ WorkerConvert
  \/ WorkerTake
  \/ WorkerDraw
  \/ WorkerEncodeType
  \/ WorkerEncodeClear
  \/ WorkerEncodeSubmit
  \/ WorkerRelock
  \/ WorkerCallback

Next == Producer \/ Worker

Spec == Init /\ [][Next]_vars

\* The screen on which the progress of the two threads is examined.
FairScreens == { <<24, 4, 24, 72>> }

\* The encoder thread is an OS thread of its own: it is scheduled as long as
\* it can take a step.  The producer finishes a call it has begun.
FairSpec ==
  /\ InitOn(FairScreens) /\ [][Next]_vars
  /\ WF_vars(Worker)
  /\ WF_vars(ForceKeyframeNotify \/ DestroyNotify \/ DestroyJoin \/ DestroyRelease)

(***************************************************************************)
(* The producer alone on many screens with many dirty rectangles, to       *)
(* exercise CreateEncodeSlice: it starts, stops and renders while the      *)
(* encoder thread has not been scheduled yet, so every slice it creates    *)
(* stays in encode_slices_.                                                *)
(***************************************************************************)
SliceScreens ==
  { <<24, 4, 24, 72>>, <<32, 4, 32, 128>>, <<40, 6, 24, 120>>, <<48, 8, 32, 192>> }

RenderOne ==
  \E r \in PartialRects(screen_width_, screen_height_) :
    Render(<< Painted(r, screen_bpp_) >>)

SliceNext ==
  \/ \E cb \in Callbacks : Start(cb)
  \/ Stop
  \/ RenderOne

SliceSpec == InitOn(SliceScreens) /\ [][SliceNext]_vars

(***************************************************************************)
(* The producer alone on small screens, with partials whose pixels are     *)
(* followed: rectangles inside the screen and rectangles leaving it,       *)
(* flipped or not, source rows packed or padded, delivered in one iovec    *)
(* or in several, with too few rows or one too many.                       *)
(***************************************************************************)
BlitScreens == { <<2, 2, 32, 8>>, <<2, 2, 24, 8>>, <<2, 2, 16, 4>> }

BlitRects == [x : {0, 1}, y : {0, 1}, width : {1, 2}, height : {1, 2}]

\* Ways to deliver a partial of h rows: the row count of each iovec.
Deliveries(h) ==
  { << h >>, << h + 1 >>, << 1, h - 1 >>, << 1, 0, h >>, << h - 1 >> }

\* Packed source rows in every delivery, padded source rows in one iovec.
BlitPartials(bpp) ==
  UNION { { Partial(r, flip, r.width * BytesPerPixel(bpp), counts, TRUE) :
              flip \in BOOLEAN, counts \in Deliveries(r.height) }
          \cup { Partial(r, flip, r.width * BytesPerPixel(bpp) + 1, << r.height >>, TRUE) :
                   flip \in BOOLEAN } :
          r \in BlitRects }

RenderFollowed == \E p \in BlitPartials(screen_bpp_) : Render(<< p >>)

\* Render called with no partial at all.
RenderNothing == Render(<< >>)

BlitNext ==
  \/ \E cb \in Callbacks : Start(cb)
  \/ Stop
  \/ RenderFollowed
  \/ RenderNothing

BlitSpec == InitOn(BlitScreens) /\ [][BlitNext]_vars

(***************************************************************************)
(* A producer that starts, stops and calls Render with no partial, beside  *)
(* the encoder thread.                                                     *)
(***************************************************************************)
IdleNext ==
  \/ \E cb \in Callbacks : Start(cb)
  \/ Stop
  \/ RenderNothing
  \/ Worker

IdleSpec == InitOn(BlitScreens) /\ [][IdleNext]_vars

(***************************************************************************)
(* The encoder thread beside a producer that starts, stops and renders     *)
(* partials whose pixels are followed, on small screens of 32, 24 and 16   *)
(* bits per pixel.                                                         *)
(***************************************************************************)
\* The whole screen in one iovec, and its right column flipped, a row an iovec.
TilePartials(bpp) ==
  { Partial([x |-> 0, y |-> 0, width |-> 2, height |-> 2], FALSE,
            2 * BytesPerPixel(bpp), << 2 >>, TRUE),
    Partial([x |-> 1, y |-> 0, width |-> 1, height |-> 2], TRUE,
            BytesPerPixel(bpp), << 1, 1 >>, TRUE) }

RenderTile == \E p \in TilePartials(screen_bpp_) : Render(<< p >>)

TileNext ==
  \/ \E cb \in Callbacks : Start(cb)
  \/ Stop
  \/ RenderTile
  \/ Worker

TileSpec == InitOn(BlitScreens) /\ [][TileNext]_vars

(***************************************************************************)
(* The claims.                                                             *)
(***************************************************************************)
\* Every EncodeSlice alive: queued, or held by the thread for stitching.
LiveSlices ==
  { encode_slices_[k] : k \in 1..Len(encode_slices_) } \cup { copied[k] : k \in 1..Len(copied) }

\* The callback was invoked in this step.
CallbackInvoked == last_cb' # last_cb

\* A picture was handed to x264_encoder_encode in this step.
PictureSubmitted == pc_w = "enc_submit" /\ pc_w' = "relock"

\* C1, as stated: every Encode Slice created has x and width multiples of 16,
\* y and height multiples of 2, and lies inside the screen, for every even
\* screen size.
C1_SliceAlignedTo16 ==
  \A sl \in LiveSlices :
    /\ sl.x % 16 = 0 /\ sl.width % 16 = 0
    /\ sl.y % 2 = 0 /\ sl.height % 2 = 0
    /\ sl.x + sl.width <= screen_width_
    /\ sl.y + sl.height <= screen_height_

\* C1, amended: every Encode Slice created has x a multiple of 16, y and
\* height multiples of 2, and lies inside the screen; its width is a multiple
\* of 16 unless the slice ends at the right edge of the screen, where the
\* width is only even.
C1_SliceAligned ==
  \A sl \in LiveSlices :
    /\ sl.x % 16 = 0
    /\ sl.y % 2 = 0 /\ sl.height % 2 = 0
    /\ sl.x + sl.width <= screen_width_
    /\ sl.y + sl.height <= screen_height_
    /\ sl.width % 2 = 0
    /\ sl.width % 16 = 0 \/ sl.x + sl.width = screen_width_

\* A slice made by Render for a rectangle that reaches past the last multiple
\* of 16 of a screen whose width is not one.
C1_Witness ==
  \E sl \in LiveSlices : sl.id # start_id /\ sl.x > 0 /\ sl.width % 16 # 0

\* C2, as stated: the callback is invoked only on ticks whose encode returned
\* a non-negative size.
C2_NoCallbackOnNegativeSize ==
  [][CallbackInvoked => output_nal_size_ >= 0]_vars

\* Encode has chosen the keyframe type for the picture it is about to submit.
KeyframeInHand ==
  pc_w \in {"enc_clear", "enc_submit"} /\ i_type = X264_TYPE_KEYFRAME

\* C3, as stated: the requests for a keyframe made before a keyframe-typed
\* picture is submitted get exactly one keyframe-typed submission: a keyframe
\* is submitted only when one is owed (never more than one), and an owed
\* keyframe is either still flagged or about to be submitted (never zero).
C3_ExactlyOneKeyframePerRequest ==
  /\ [][(PictureSubmitted /\ i_type = X264_TYPE_KEYFRAME) => kf_owed]_vars
  /\ [](kf_owed => (force_keyframe_ \/ KeyframeInHand))

\* The keyframe-typed pictures submitted since the latest Start, the one of
\* this step included.
KeyframesSinceStart ==
  start_kf + (IF i_type = X264_TYPE_KEYFRAME THEN 1 ELSE 0)

\* C4, as stated: between a Start and the first tick after it that produced
\* output, exactly one keyframe-typed picture is submitted, when
\* ForceKeyframe was not called in between.
C4_OneKeyframeBeforeFirstOutput ==
  [][(PictureSubmitted /\ start_wait /\ output_nal_size_' >= 0 /\ ~start_forced) =>
       KeyframesSinceStart = 1]_vars

\* C5, as stated: Start appends one slice covering the full screen, and the
\* keyframe-typed picture submitted because of a Start is submitted only
\* after that slice has been stitched into the Working Picture.
C5_KeyframeCoversScreen ==
  /\ [][start_id' # start_id =>
          /\ Len(encode_slices_') = Len(encode_slices_) + 1
          /\ encode_slices_'[Len(encode_slices_')] =
               [id |-> start_id', x |-> 0, y |-> 0,
                width |-> screen_width_, height |-> screen_height_,
                tile |-> Unconverted]]_vars
  /\ [][(PictureSubmitted /\ i_type = X264_TYPE_KEYFRAME /\ type_origin # 0) =>
          \E k \in 1..Len(drawn) : drawn[k] = type_origin]_vars

\* The thread is between two ticks: no Encode call is in progress.
BetweenEncodes == pc_w \notin {"enc_clear", "enc_submit"}

\* C6, as stated: the presentation timestamp is its initial value plus the
\* number of ticks that produced output.
C6_PtsCountsOutputs == BetweenEncodes => i_pts = n_out

\* C6, amended: the presentation timestamp is its initial value plus the
\* number of Encode calls made, those on which the codec returned a negative
\* size included.
C6_PtsCountsEncodes == BetweenEncodes => i_pts = n_out + n_neg

\* Ticks of both kinds have happened.
C6_Witness == BetweenEncodes /\ n_out > 0 /\ n_neg > 0

\* C7: once destroyed_ is set the destructor completes; it releases the
\* codec, the picture and the bitmap only after the thread has returned, and
\* after the release no Encode runs and no callback is invoked.
C7_DestructionCompletes ==
  /\ destroyed_ ~> released
  /\ [](released => pc_w = "done")
  /\ [][released => (i_pts' = i_pts /\ n_out' = n_out /\ n_neg' = n_neg /\ ~CallbackInvoked)]_vars

\* The destructor has completed on a pipeline that was encoding and
\* delivering when it began.
C7_Witness == released /\ started_ /\ i_pts > 0 /\ last_cb # NoCb

\* C8, as stated: every payload handed to the callback of a Start comes from
\* a picture submitted to the codec after that Start.
C8_NoStaleDelivery ==
  [][(CallbackInvoked /\ output_nal_size_ >= 0) => nal_start = start_id]_vars

\* C9: the callback is invoked only with the mutex held and the callback slot
\* filled, and it is the callback in the slot; in particular never between a
\* Stop and the next Start, during which started_ is false and the slot empty.
C9_CallbackOnlyWhileInstalled ==
  [][CallbackInvoked =>
       /\ lock_owner = "worker"
       /\ output_callback_ # NoCallback
       /\ started_
       /\ last_cb'.cb = output_callback_]_vars

\* Stop was called during a tick that had delivered before: the thread has
\* reached the invocation and finds the slot empty.
C9_Witness ==
  pc_w = "callback" /\ ~started_ /\ output_callback_ = NoCallback /\ last_cb # NoCb

\* C10: while the pipeline is started and not destroyed, a requested
\* keyframe is eventually submitted, with or without further Render calls.
C10_ForcedKeyframeEventually ==
  (kf_owed /\ started_ /\ ~destroyed_) ~> (~kf_owed \/ ~started_ \/ destroyed_)

\* ForceKeyframe was called while the thread was inside Encode, past the test
\* of the flag, with nothing queued.
C10_Witness ==
  /\ pc_p = "fk_notify" /\ kf_owed /\ started_ /\ ~destroyed_
  /\ pc_w = "enc_submit" /\ i_type = X264_TYPE_AUTO
  /\ encode_slices_ = << >>

(***************************************************************************)
(* The screen buffer.                                                      *)
(***************************************************************************)
\* The bytes of the iovecs of a partial, one after the other.
RECURSIVE Concatenated(_)
Concatenated(vector) ==
  IF vector = << >> THEN << >>
  ELSE [j \in 1..Head(vector).iov_len |-> ByteAt(Head(vector).iov_base, j - 1)]
         \o Concatenated(Tail(vector))

\* A partial as Render's callers must send it: the rectangle inside the
\* screen, every iovec a whole number of source rows, and at least height
\* rows in all.
WellFormed(partial) ==
  /\ partial.x + partial.width <= screen_width_
  /\ partial.y + partial.height <= screen_height_
  /\ \A k \in 1..Len(partial.vector) : partial.vector[k].iov_len % partial.stride = 0
  /\ Len(Concatenated(partial.vector)) >= partial.height * partial.stride

\* The indices of the bytes of the screen buffer.
BufferBytes == 0..(screen_stride_ * screen_height_ - 1)

\* Byte i of the screen buffer as the partial should leave it, source being
\* the concatenated iovecs: inside the
\* rectangle the byte of the source row that belongs to the screen row (the
\* rows counted backwards when flip is set), outside it the byte as it was.
BlitByte(bitmap, partial, source, i) ==
  LET n == BytesPerPixel(screen_bpp_)
      v == (i \div screen_stride_) - partial.y
      c == (i % screen_stride_) - partial.x * n
      row == IF partial.flip THEN partial.height - 1 - v ELSE v
  IN IF v >= 0 /\ v < partial.height /\ c >= 0 /\ c < partial.width * n
       THEN source[row * partial.stride + c + 1]
       ELSE ByteAt(bitmap, i)

\* C11: for every well-formed partial, RenderPartial completes and leaves in
\* the rectangle's bytes of screen row y+v source row v of the concatenated
\* iovecs (row height-1-v when flip is set), whatever the split of the rows
\* into iovecs, and leaves every byte outside the rectangle as it was.
C11_BlitCopiesRows ==
  \A p \in BlitPartials(screen_bpp_) :
    WellFormed(p) =>
      LET after == RenderPartial(screen_bitmap_, p, screen_height_,
                                 screen_bpp_, screen_stride_)
          source == Concatenated(p.vector)
      IN /\ ~after.aborted
         /\ \A i \in BufferBytes :
              ByteAt(after.bitmap, i) = BlitByte(screen_bitmap_, p, source, i)

\* A flipped partial of two rows was rendered at (0, 0): its second source
\* row is in screen row 0 and its first in screen row 1.
C11_Witness ==
  /\ ByteAt(screen_bitmap_, 0) = SourceByte(1, 0, TRUE)
  /\ ByteAt(screen_bitmap_, screen_stride_) = SourceByte(0, 0, TRUE)

\* C12, as stated: Render of a malformed partial (a rectangle that leaves the
\* screen, or iovecs with fewer rows than the height) aborts the process: it
\* does not return and queues no slice.
C12_MalformedRenderAborts ==
  [][\A p \in BlitPartials(screen_bpp_) :
       (~WellFormed(p) /\ Render(<< p >>)) =>
          (pc_p' = "aborted" /\ encode_slices_' = encode_slices_)]_vars

(***************************************************************************)
(* The slice of a partial.                                                 *)
(***************************************************************************)
\* The largest multiple of a that is at most v, the smallest that is at least v.
MultipleBelow(v, a) == a * (v \div a)
MultipleAbove(v, a) == a * ((v + a - 1) \div a)
Smaller(a, b) == IF a < b THEN a ELSE b

\* The rectangle r with left rounded down and right rounded up to multiples
\* of 16, top down and bottom up to multiples of 2, right and bottom then
\* clamped to the screen sw x sh.
RoundedClamped(r, sw, sh) ==
  LET l == MultipleBelow(r.x, 16)
      t == MultipleBelow(r.y, 2)
      rr == Smaller(MultipleAbove(r.x + r.width, 16), sw)
      b == Smaller(MultipleAbove(r.y + r.height, 2), sh)
  IN [x |-> l, y |-> t, width |-> rr - l, height |-> b - t]

\* The slice Render would queue now for the rectangle r.
SliceOf(r) ==
  LET queue == CreateEncodeSlice(encode_slices_, next_id + 1, r.y, r.x,
                                 r.y + r.height, r.x + r.width,
                                 screen_width_, screen_height_)
      sl == queue[Len(queue)]
  IN [x |-> sl.x, y |-> sl.y, width |-> sl.width, height |-> sl.height]

\* The partial of the example: x=5, y=3, w=10, h=5 on a 640x480 screen.
ExampleSlice == SliceRect(3, 5, 3 + 5, 5 + 10, 640, 480)

\* C13, as stated: the slice of a partial is its rectangle rounded outwards
\* to multiples of 16 (left, right) and of 2 (top, bottom), then clamped to
\* the screen; for x=5, y=3, w=10, h=5 on 640x480 it is x=0, y=2, width=16,
\* height=4.
C13_SliceRectExampleHeight4 ==
  /\ \A r \in PartialRects(screen_width_, screen_height_) :
       SliceOf(r) = RoundedClamped(r, screen_width_, screen_height_)
  /\ ExampleSlice = [x |-> 0, y |-> 2, width |-> 16, height |-> 4]

\* C13, amended: the same rounding and clamping; for x=5, y=3, w=10, h=5 on
\* 640x480 the slice is x=0, y=2, width=16, height=6 (top 3 -> 2, bottom
\* 8 -> 8).
C13_SliceRectRounded ==
  /\ \A r \in PartialRects(screen_width_, screen_height_) :
       SliceOf(r) = RoundedClamped(r, screen_width_, screen_height_)
  /\ ExampleSlice = [x |-> 0, y |-> 2, width |-> 16, height |-> 6]

\* Render has queued the slice of a partial that was rounded on all four
\* sides and clamped on none: x=5, y=1, w=10, h=1 gives (0, 0, 16, 2).
C13_Witness ==
  \E k \in 1..Len(encode_slices_) :
    /\ encode_slices_[k].id # start_id
    /\ SliceOf([x |-> 5, y |-> 1, width |-> 10, height |-> 1]) =
         [x |-> encode_slices_[k].x, y |-> encode_slices_[k].y,
          width |-> encode_slices_[k].width, height |-> encode_slices_[k].height]
    /\ encode_slices_[k].width = 16 /\ encode_slices_[k].height = 2

(***************************************************************************)
(* Render with nothing to render.                                          *)
(***************************************************************************)
\* C14: Render with an empty list of partials leaves the queue, the screen
\* buffer, started_, the callback slot and force_keyframe_ as they were and
\* creates no slice, whatever the state of the pipeline.
C14_EmptyRenderChangesNothing ==
  [][RenderNothing =>
       UNCHANGED << encode_slices_, screen_bitmap_, started_, output_callback_,
                    force_keyframe_, next_id >>]_vars

\* Render was called with no partial on a stopped pipeline whose queue still
\* held a slice, while the thread waited: all it did was notify.
C14_Witness ==
  pc_w = "wait" /\ cv_notified /\ ~started_ /\ encode_slices_ # << >>

(***************************************************************************)
(* The mutex and the condition variable.                                   *)
(***************************************************************************)
\* The encoder thread reads destroyed_ (the loop condition), reads
\* force_keyframe_ or clears it in this step.
WorkerTouchesFlag ==
  pc_w \in {"loop", "encode", "enc_clear"} /\ pc_w' \notin {pc_w, "aborted"}

\* The producer writes force_keyframe_ (ForceKeyframe) or destroyed_ (the
\* destructor) in this step.
ProducerWritesFlag ==
  pc_p = "run" /\ pc_p' \in {"fk_notify", "dtor_notify"}

\* C15, as stated: every access to the members encode_mutex_ protects is
\* made by a thread that holds it: the encoder thread holds it when it reads
\* or writes force_keyframe_ or destroyed_, and the producer writes them only
\* when the mutex is its to hold, never while the encoder thread holds it.
C15_SharedStateOnlyUnderLock ==
  /\ [][WorkerTouchesFlag => lock_owner = "worker"]_vars
  /\ [][ProducerWritesFlag => lock_owner # "worker"]_vars

\* A notification reached the waiting thread in this step.
Notified == ~cv_notified /\ cv_notified'

\* C16, as stated: every step that appends a slice to the queue notifies the
\* waiting thread, Start's as well as Render's; so do ForceKeyframe and the
\* destructor; and a call to Render notifies only when it queued a slice.
C16_EveryAppendNotifies ==
  /\ [][(Len(encode_slices_') > Len(encode_slices_) /\ pc_w = "wait") => cv_notified']_vars
  /\ [][(pc_p \in {"fk_notify", "dtor_notify"} /\ pc_p' # pc_p /\ pc_w = "wait") =>
          cv_notified']_vars
  /\ [][(Notified /\ pc_p = "run" /\ pc_p' = "run") =>
          Len(encode_slices_') > Len(encode_slices_)]_vars

(***************************************************************************)
(* The life of a slice.                                                    *)
(***************************************************************************)
SliceIds(slices) == [k \in 1..Len(slices) |-> slices[k].id]

TimesHeld(id) ==
  LET all == drawn \o SliceIds(copied) \o SliceIds(encode_slices_)
  IN Cardinality({ k \in 1..Len(all) : all[k] = id })

\* C18, as stated: no slice is stitched or released twice, and once the
\* destructor has completed no slice is left allocated: none in the queue,
\* none in the hands of the thread.
C18_EverySliceReleasedOnce ==
  /\ \A id \in 1..next_id : TimesHeld(id) = 1
  /\ released => (encode_slices_ = << >> /\ copied = << >>)

(***************************************************************************)
(* Conversion.                                                             *)
(***************************************************************************)
\* The thread is inside the critical section that converts and takes.
Converting == pc_w \in {"convert", "take"}

\* C19: the thread holds the mutex from ConvertSlices to the removal of the
\* batch from the queue; meanwhile no step of the producer writes the screen
\* buffer or changes the queue; so every slice of the batch taken has the
\* tile that the screen buffer of that moment converts to.
C19_ConvertedFromBufferOfTick ==
  /\ [](Converting => lock_owner = "worker")
  /\ [][(Converting /\ pc_w' = pc_w) => UNCHANGED << screen_bitmap_, encode_slices_ >>]_vars
  /\ [][(pc_w = "take" /\ pc_w' = "draw") =>
          \A k \in 1..Len(copied') :
            copied'[k] = ConvertSlice(copied'[k], screen_bitmap_, screen_bpp_, screen_stride_)]_vars

\* The batch in hand was converted from followed pixels, and Render has
\* written the screen buffer since the thread dropped the mutex.
C19_Witness ==
  /\ pc_w = "draw"
  /\ \E k \in 1..Len(copied) :
       /\ copied[k].tile.converted /\ copied[k].tile.colour # << >>
       /\ copied[k] # ConvertSlice(copied[k], screen_bitmap_, screen_bpp_, screen_stride_)

\* C20, as stated: on a screen whose bits per pixel are neither 32 nor 24,
\* ConvertSlices aborts the process, and DrawSlices never stitches a tile
\* that was not converted.
C20_UnsupportedBppAborts ==
  /\ [][(pc_w = "convert" /\ pc_w' # pc_w /\ screen_bpp_ \notin {24, 32}) =>
          pc_w' = "aborted"]_vars
  /\ [][(pc_w = "draw" /\ pc_w' = "encode") =>
          \A k \in 1..Len(copied) : copied[k].tile.converted]_vars

====
